---------------------------- MODULE Spec2Model ----------------------------
(***************************************************************************)
(* CodeCity: scanner2.py (file enumeration, concurrent per-file analysis,  *)
(* squarified treemap layout, tile assembly) and app.py (the HTTP trigger  *)
(* surface and the snapshot store).                                        *)
(*                                                                         *)
(* Python floats are modelled as exact rationals [n, d] in lowest terms,   *)
(* so every statement about areas below is a statement of exact            *)
(* arithmetic; rounding is outside the model.                              *)
(***************************************************************************)
EXTENDS Integers, Sequences, FiniteSets, TLC

(***************************************************************************)
(* Bounds of the model.                                                    *)
(***************************************************************************)
\* longest size list handed to the layout engine in SpecLayout
MaxLen == 3
\* largest single size (line count) in SpecLayout
MaxSize == 3
\* largest target side in SpecLayout
MaxSide == 2

(***************************************************************************)
(* Exact rational arithmetic standing for Python float arithmetic.         *)
(***************************************************************************)
RECURSIVE Gcd(_, _)
Gcd(a, b) == IF b = 0 THEN a ELSE Gcd(b, a % b)

Abs(a) == IF a < 0 THEN -a ELSE a

\* the rational n/d (d # 0) in lowest terms with a positive denominator
Rat(n, d) ==
    LET g == Gcd(Abs(n), Abs(d))
        s == IF d < 0 THEN -1 ELSE 1
    IN  [n |-> s * (n \div g), d |-> s * (d \div g)]

\* float(k) for an integer k
ToFloat(k) == [n |-> k, d |-> 1]

RAdd(p, q) == Rat(p.n * q.d + q.n * p.d, p.d * q.d)
RSub(p, q) == Rat(p.n * q.d - q.n * p.d, p.d * q.d)
RMul(p, q) == Rat(p.n * q.n, p.d * q.d)
\* p / q; Python raises ZeroDivisionError when q = 0, the model has no value
RDiv(p, q) == Rat(p.n * q.d, p.d * q.n)
RGeq(p, q) == p.n * q.d >= q.n * p.d
RLeq(p, q) == RGeq(q, p)
RMax(p, q) == IF RGeq(p, q) THEN p ELSE q
Zero == ToFloat(0)

RECURSIVE RSum(_)
RSum(s) == IF s = <<>> THEN Zero ELSE RAdd(Head(s), RSum(Tail(s)))

RECURSIVE ISum(_)
ISum(s) == IF s = <<>> THEN 0 ELSE Head(s) + ISum(Tail(s))

(***************************************************************************)
(* The treemap layout engine: the squarify package called at               *)
(* scanner2.py:156-157, as spec section 4.4 states its algorithm.          *)
(***************************************************************************)
\* normalize_sizes: value_i = size_i * (dx * dy) / sum(sizes)
normalize_sizes(szs, dx, dy) ==
    LET total_size == ISum(szs)
        total_area == dx * dy
    IN  [i \in 1..Len(szs) |-> Rat(szs[i] * total_area, total_size)]

\* the loop of layoutrow: one rectangle per value, y advancing by value / width
RECURSIVE RowRects(_, _, _, _)
RowRects(vs, x, y, width) ==
    IF vs = <<>> THEN <<>>
    ELSE LET h == RDiv(Head(vs), width)
         IN  <<[x |-> x, y |-> y, dx |-> width, dy |-> h]>>
             \o RowRects(Tail(vs), x, RAdd(y, h), width)

\* layoutrow: the rectangles fill the height dy; their shared width is sum / dy
layoutrow(vs, x, y, dx, dy) == RowRects(vs, x, y, RDiv(RSum(vs), dy))

\* the loop of layoutcol: one rectangle per value, x advancing by value / height
RECURSIVE ColRects(_, _, _, _)
ColRects(vs, x, y, height) ==
    IF vs = <<>> THEN <<>>
    ELSE LET w == RDiv(Head(vs), height)
         IN  <<[x |-> x, y |-> y, dx |-> w, dy |-> height]>>
             \o ColRects(Tail(vs), RAdd(x, w), y, height)

\* layoutcol: the rectangles fill the width dx; their shared height is sum / dx
layoutcol(vs, x, y, dx, dy) == ColRects(vs, x, y, RDiv(RSum(vs), dx))

\* layout: rows are laid along the shorter side of the free rectangle
layout(vs, x, y, dx, dy) ==
    IF RGeq(dx, dy) THEN layoutrow(vs, x, y, dx, dy)
    ELSE layoutcol(vs, x, y, dx, dy)

\* leftover: the free rectangle shrunk by the thickness of the row just laid
leftover(vs, x, y, dx, dy) ==
    IF RGeq(dx, dy)
    THEN LET width == RDiv(RSum(vs), dy)
         IN  [x |-> RAdd(x, width), y |-> y, dx |-> RSub(dx, width), dy |-> dy]
    ELSE LET height == RDiv(RSum(vs), dx)
         IN  [x |-> x, y |-> RAdd(y, height), dx |-> dx, dy |-> RSub(dy, height)]

\* max(dx / dy, dy / dx) of one rectangle
AspectRatio(r) == RMax(RDiv(r.dx, r.dy), RDiv(r.dy, r.dx))

RECURSIVE MaxRatio(_)
MaxRatio(rs) ==
    IF Len(rs) = 1 THEN AspectRatio(rs[1])
    ELSE RMax(AspectRatio(Head(rs)), MaxRatio(Tail(rs)))

\* worst_ratio: the worst aspect ratio of the row vs laid in the free rectangle
worst_ratio(vs, x, y, dx, dy) == MaxRatio(layout(vs, x, y, dx, dy))

\* the split index of squarify: the row grows while the worst ratio does not increase
RECURSIVE SplitFrom(_, _, _, _, _, _)
SplitFrom(i, vs, x, y, dx, dy) ==
    IF i < Len(vs)
       /\ RGeq(worst_ratio(SubSeq(vs, 1, i), x, y, dx, dy),
               worst_ratio(SubSeq(vs, 1, i + 1), x, y, dx, dy))
    THEN SplitFrom(i + 1, vs, x, y, dx, dy)
    ELSE i

Split(vs, x, y, dx, dy) == SplitFrom(1, vs, x, y, dx, dy)

\* squarify: lay the first row, recurse on the rest in the leftover rectangle
RECURSIVE squarify(_, _, _, _, _)
squarify(vs, x, y, dx, dy) ==
    IF Len(vs) = 0 THEN <<>>
    ELSE IF Len(vs) = 1 THEN layout(vs, x, y, dx, dy)
    ELSE LET i == Split(vs, x, y, dx, dy)
             current == SubSeq(vs, 1, i)
             remaining == SubSeq(vs, i + 1, Len(vs))
             lo == leftover(current, x, y, dx, dy)
         IN  layout(current, x, y, dx, dy)
             \o squarify(remaining, lo.x, lo.y, lo.dx, lo.dy)

(***************************************************************************)
(* Strings are sequences of one-character strings, so that endswith and    *)
(* the substring test 'in' are computed and not assumed.                   *)
(***************************************************************************)
EndsWith(str, suffix) ==
    /\ Len(suffix) <= Len(str)
    /\ SubSeq(str, Len(str) - Len(suffix) + 1, Len(str)) = suffix

\* Python's  sub in str
Contains(str, sub) ==
    \E i \in 1..(Len(str) - Len(sub) + 1) : SubSeq(str, i, i + Len(sub) - 1) = sub

DotGit == <<".", "g", "i", "t">>

SUPPORTED_EXTENSIONS ==
    {<<".", "c">>, <<".", "c", "c">>, <<".", "c", "p", "p">>,
     <<".", "c", "x", "x">>, <<".", "c", "+", "+">>, <<".", "h">>,
     <<".", "h", "h">>, <<".", "h", "p", "p">>, <<".", "h", "x", "x">>,
     <<".", "h", "+", "+">>, <<".", "j", "a", "v", "a">>, <<".", "j", "s">>,
     <<".", "m">>, <<".", "m", "m">>, <<".", "p", "y">>, <<".", "r", "b">>,
     <<".", "s", "w", "i", "f", "t">>, <<".", "g", "o">>,
     <<".", "p", "h", "p">>, <<".", "p", "l">>, <<".", "p", "m">>,
     <<".", "t">>, <<".", "c", "s">>, <<".", "d">>, <<".", "e", "r", "l">>,
     <<".", "e", "x">>, <<".", "e", "x", "s">>, <<".", "f", "9", "0">>,
     <<".", "f">>, <<".", "f", "o", "r">>, <<".", "f", "9", "5">>,
     <<".", "g", "r", "o", "o", "v", "y">>, <<".", "h", "s">>,
     <<".", "k", "t">>, <<".", "k", "t", "s">>, <<".", "l", "u", "a">>,
     <<".", "n", "b">>, <<".", "p", "a", "s">>, <<".", "p", "p">>,
     <<".", "R">>, <<".", "r", "s">>, <<".", "s", "c", "a", "l", "a">>,
     <<".", "s", "c">>, <<".", "s", "h">>, <<".", "b", "a", "s", "h">>,
     <<".", "s", "q", "l">>, <<".", "t", "s">>, <<".", "t", "s", "x">>,
     <<".", "v", "b">>, <<".", "v", "b", "s">>, <<".", "g", "d">>}

(***************************************************************************)
(* File enumerator: get_source_files_from_local.  A tree is the sequence   *)
(* of (root, files) pairs os.walk yields; a file on disk is named by its   *)
(* position <<d, k>> in the tree.                                          *)
(***************************************************************************)
\* os.path.relpath(os.path.join(root, file), local_repo_path)
RelPath(root, file) == IF root = <<>> THEN file ELSE root \o <<"/">> \o file

Supported(file) == \E ext \in SUPPORTED_EXTENSIONS : EndsWith(file, ext)

WalkInit == [d |-> 1, k |-> 1, source_files |-> <<>>, returned |-> FALSE]

\* the cap tested with > in place of >=
WalkStepLateCap(tr, max_files, w) ==
    IF w.d > Len(tr) THEN [w EXCEPT !.returned = TRUE]
    ELSE IF Contains(tr[w.d].root, DotGit) \/ w.k > Len(tr[w.d].files)
    THEN [w EXCEPT !.d = w.d + 1, !.k = 1]
    ELSE LET file == tr[w.d].files[w.k].name
             found == IF Supported(file)
                      THEN Append(w.source_files,
                                  [name |-> file,
                                   path |-> RelPath(tr[w.d].root, file),
                                   local_path |-> <<w.d, w.k>>])
                      ELSE w.source_files
         IN  IF Len(found) > max_files
             THEN [w EXCEPT !.source_files = found, !.returned = TRUE]
             ELSE [w EXCEPT !.source_files = found, !.k = w.k + 1]

\* one iteration of the loops of lines 70-85: skip a directory, visit one file, or return
WalkStep(tr, max_files, w) ==
    IF w.d > Len(tr) THEN [w EXCEPT !.returned = TRUE]
    ELSE IF Contains(tr[w.d].root, DotGit) \/ w.k > Len(tr[w.d].files)
    THEN [w EXCEPT !.d = w.d + 1, !.k = 1]
    ELSE LET file == tr[w.d].files[w.k].name
             found == IF Supported(file)
                      THEN Append(w.source_files,
                                  [name |-> file,
                                   path |-> RelPath(tr[w.d].root, file),
                                   local_path |-> <<w.d, w.k>>])
                      ELSE w.source_files
         IN  IF Len(found) >= max_files
             THEN [w EXCEPT !.source_files = found, !.returned = TRUE]
             ELSE [w EXCEPT !.source_files = found, !.k = w.k + 1]

RECURSIVE WalkAll(_, _, _)
WalkAll(tr, max_files, w) ==
    IF w.returned THEN w.source_files ELSE WalkAll(tr, max_files, WalkStep(tr, max_files, w))

get_source_files_from_local(tr, max_files) == WalkAll(tr, max_files, WalkInit)

(***************************************************************************)
(* Complexity analyzer: analyze_file.  A file on disk has a readable flag, *)
(* a content and what lizard does with it: it raises, or reports the       *)
(* cyclomatic complexities ccn of the file's functions.                    *)
(***************************************************************************)
\* Python's None and a present value, as sequences of length 0 and 1
None == <<>>
Some(v) == <<v>>

\* str.splitlines for "\n": a trailing line break opens no further line
RECURSIVE SplitLinesFrom(_, _, _)
SplitLinesFrom(content, line, i) ==
    IF i > Len(content)
    THEN IF line = <<>> THEN <<>> ELSE <<line>>
    ELSE IF content[i] = "\n"
    THEN <<line>> \o SplitLinesFrom(content, <<>>, i + 1)
    ELSE SplitLinesFrom(content, Append(line, content[i]), i + 1)

splitlines(content) == SplitLinesFrom(content, <<>>, 1)

Max(a, b) == IF a >= b THEN a ELSE b

\* analyze_file without the empty-content return of lines 94-95
analyze_file_keeps_empty(disk, file_info) ==
    LET f == disk[file_info.local_path[1]].files[file_info.local_path[2]]
        lines == splitlines(f.content)
    IN  IF ~f.readable THEN None
        ELSE IF f.lizard_raises THEN None
        ELSE Some([name |-> file_info.name,
                   size |-> Max(1, Len(lines)),
                   complexity |-> IF ISum(f.ccn) = 0 THEN 1 ELSE ISum(f.ccn),
                   churn |-> 1])

\* analyze_file without the `or 1` of line 102
analyze_file_no_floor(disk, file_info) ==
    LET f == disk[file_info.local_path[1]].files[file_info.local_path[2]]
        lines == splitlines(f.content)
    IN  IF ~f.readable THEN None
        ELSE IF f.content = <<>> THEN None
        ELSE IF lines = <<>> THEN None
        ELSE IF f.lizard_raises THEN None
        ELSE Some([name |-> file_info.name,
                   size |-> Max(1, Len(lines)),
                   complexity |-> ISum(f.ccn),
                   churn |-> 1])

\* lines 90-112: every exception is caught and turned into None
analyze_file(disk, file_info) ==
    LET f == disk[file_info.local_path[1]].files[file_info.local_path[2]]
        lines == splitlines(f.content)
    IN  IF ~f.readable THEN None
        ELSE IF f.content = <<>> THEN None
        ELSE IF lines = <<>> THEN None
        ELSE IF f.lizard_raises THEN None
        ELSE Some([name |-> file_info.name,
                   size |-> Max(1, Len(lines)),
                   complexity |-> IF ISum(f.ccn) = 0 THEN 1 ELSE ISum(f.ccn),
                   churn |-> 1])

(***************************************************************************)
(* Visual encoder and city assembler: lines 149-182.                       *)
(***************************************************************************)
\* the thresholds of lines 162-169 taken as strict: a boundary value falls in the upper bucket
ColorStrict(complexity) ==
    IF complexity < 5 THEN "#00ffcc"
    ELSE IF complexity < 15 THEN "#00ff88"
    ELSE IF complexity < 30 THEN "#FFC300"
    ELSE IF complexity < 50 THEN "#ff9900"
    ELSE "#ff4444"

Color(complexity) ==
    IF complexity <= 5 THEN "#00ffcc"
    ELSE IF complexity <= 15 THEN "#00ff88"
    ELSE IF complexity <= 30 THEN "#FFC300"
    ELSE IF complexity <= 50 THEN "#ff9900"
    ELSE "#ff4444"

Height(complexity) == Max(1, complexity * 2)

\* int(x ** 0.5 * 45): the integer part of 45 * sqrt(n)
IntSqrt45(n) == CHOOSE k \in 0..(45 * n) : k * k <= 2025 * n /\ (k + 1) * (k + 1) > 2025 * n

\* line 150
DynamicArea(num_files) == Max(150, IntSqrt45(num_files))

\* lines 152-154
SizesOf(ftr) ==
    LET szs == [i \in 1..Len(ftr) |-> ftr[i].size]
    IN  IF ISum(szs) = 0 THEN [i \in 1..Len(ftr) |-> 1] ELSE szs

\* the sizes handed to squarify as they are, not normalized
LayoutStartRaw(szs, side) ==
    [values |-> [i \in 1..Len(szs) |-> ToFloat(szs[i])],
     free |-> [x |-> Zero, y |-> Zero, dx |-> ToFloat(side), dy |-> ToFloat(side)]]

\* the sizes normalized to the side, not to the area
LayoutStartSide(szs, side) ==
    [values |-> normalize_sizes(szs, side, 1),
     free |-> [x |-> Zero, y |-> Zero, dx |-> ToFloat(side), dy |-> ToFloat(side)]]

\* lines 156-157: normalize to the square, then squarify from the origin
LayoutStart(szs, side) ==
    [values |-> normalize_sizes(szs, side, side),
     free |-> [x |-> Zero, y |-> Zero, dx |-> ToFloat(side), dy |-> ToFloat(side)]]

LayoutCall(szs, side) ==
    LET st == LayoutStart(szs, side)
    IN  squarify(st.values, st.free.x, st.free.y, st.free.dx, st.free.dy)

\* lines 175-182: one tile from metric i and rectangle i
Tile(file_data, rect) ==
    [name |-> file_data.name,
     x |-> rect.x, y |-> rect.y, w |-> rect.dx, d |-> rect.dy,
     h |-> Height(file_data.complexity),
     color |-> Color(file_data.complexity),
     size |-> file_data.size]

\* the assembly loop indexing the rectangles from the other end
AssembleTilesReversed(ftr, rs) ==
    IF Len(rs) < Len(ftr) THEN None
    ELSE Some([i \in 1..Len(ftr) |-> Tile(ftr[i], rs[Len(ftr) + 1 - i])])

\* the loop of lines 160-182; rects[i] raises IndexError when rects is the shorter
AssembleTiles(ftr, rs) ==
    IF Len(rs) < Len(ftr) THEN None
    ELSE Some([i \in 1..Len(ftr) |-> Tile(ftr[i], rs[i])])

(***************************************************************************)
(* State.                                                                  *)
(***************************************************************************)
VARIABLES
    \* one run of scanner2.py
    pc,             \* position of the run in __main__ / build_city_from_github
    argv_url,       \* sys.argv[1]: "absent", "malformed" or "ok"
    tree,           \* the repository's file tree, as cloned
    tmp_dir,        \* the directory tempfile.mkdtemp made: "none", "present", "removed"
    local_repo_path,\* build_city_from_github: local_repo_path (None or "tmp")
    files,          \* build_city_from_github: files
    fut,            \* per submitted file: the future's state and result
    files_to_render,\* build_city_from_github: files_to_render
    city_data,      \* build_city_from_github: city_data
    data_file,      \* the content of city_data2.json
    exc,            \* the exception propagating to __main__, or None
    exit_code,      \* the process's exit status, None while it runs
    fatal,          \* the message printed after [FATAL ERROR], or None
    \* the layout call
    sizes,          \* build_city_from_github: sizes (line 152)
    dynamic_area,   \* build_city_from_github: dynamic_area, the target side
    values,         \* squarify: the values not yet laid out
    free,           \* squarify: the free rectangle x, y, dx, dy of the current call
    rects,          \* the rectangles returned so far
    lpc,            \* position of the layout call
    \* the enumerator, step by step
    walk,           \* get_source_files_from_local: loop position and source_files
    \* app.py
    req,            \* per analyze request: its position, inputs and response
    proc,           \* per analyze request: the scanner2.py subprocess it runs
    snapshots,      \* the snapshot directory: per id, None or the stored payload
    time            \* the wall clock, in ticks

layoutVars == <<sizes, dynamic_area, values, free, rects, lpc>>
runVars == <<pc, argv_url, tree, tmp_dir, local_repo_path, files, fut,
             files_to_render, city_data, data_file, exc, exit_code, fatal>>
runLocal == <<pc, argv_url, tree, tmp_dir, local_repo_path, files, fut,
              files_to_render, city_data, exc, exit_code, fatal>>
appVars == <<req, proc, snapshots, time>>
vars == <<runVars, layoutVars, walk, appVars>>

\* city_data2.json: absent, truncated by open(..., 'w') with the dump not yet
\* complete, or holding a tile list; by is the run that last opened it for
\* writing (history, not program state: 0 is the run of Spec or an earlier run)
Absent == [state |-> "absent", tiles |-> <<>>, by |-> 0]
Truncated(run) == [state |-> "truncated", tiles |-> <<>>, by |-> run]
Written(run, tiles) == [state |-> "written", tiles |-> tiles, by |-> run]
NoRect == [x |-> Zero, y |-> Zero, dx |-> Zero, dy |-> Zero]

\* app.py's variables in the specifications without requests
AppIdle ==
    /\ req = <<>>
    /\ proc = <<>>
    /\ snapshots = <<>>
    /\ time = 0

\* the run's variables in the specifications that do not run the pipeline
RunIdle ==
    /\ pc = "idle"
    /\ argv_url = "ok"
    /\ tree = <<>>
    /\ tmp_dir = "none"
    /\ local_repo_path = None
    /\ files = <<>>
    /\ fut = <<>>
    /\ files_to_render = <<>>
    /\ city_data = <<>>
    /\ data_file = Absent
    /\ exc = None
    /\ exit_code = None
    /\ fatal = None

(***************************************************************************)
(* SpecLayout: the layout engine on every bounded size list and side,      *)
(* one squarify call (one row) per step.                                   *)
(***************************************************************************)
SizeLists == UNION {[1..n -> 1..MaxSize] : n \in 1..MaxLen}

LayoutInit ==
    /\ sizes \in SizeLists
    /\ dynamic_area \in 1..MaxSide
    /\ values = <<>>
    /\ free = NoRect
    /\ rects = <<>>
    /\ lpc = "normalize"
    /\ RunIdle
    /\ walk = WalkInit
    /\ AppIdle

Normalize ==
    /\ lpc = "normalize"
    /\ values' = LayoutStart(sizes, dynamic_area).values
    /\ free' = LayoutStart(sizes, dynamic_area).free
    /\ lpc' = "squarify"
    /\ UNCHANGED <<sizes, dynamic_area, rects, runVars, walk, appVars>>

\* one call of squarify: the base cases, or one row and the recursive call
SquarifyReturn ==
    /\ lpc = "squarify"
    /\ Len(values) = 0
    /\ lpc' = "done"
    /\ UNCHANGED <<sizes, dynamic_area, values, free, rects, runVars, walk, appVars>>

SquarifyLast ==
    /\ lpc = "squarify"
    /\ Len(values) = 1
    /\ rects' = rects \o layout(values, free.x, free.y, free.dx, free.dy)
    /\ lpc' = "done"
    /\ UNCHANGED <<sizes, dynamic_area, values, free, runVars, walk, appVars>>

SquarifyRow ==
    /\ lpc = "squarify"
    /\ Len(values) > 1
    /\ LET i == Split(values, free.x, free.y, free.dx, free.dy)
           current == SubSeq(values, 1, i)
       IN  /\ rects' = rects \o layout(current, free.x, free.y, free.dx, free.dy)
           /\ free' = leftover(current, free.x, free.y, free.dx, free.dy)
           /\ values' = SubSeq(values, i + 1, Len(values))
    /\ UNCHANGED <<sizes, dynamic_area, lpc, runVars, walk, appVars>>

LayoutNext == Normalize \/ SquarifyReturn \/ SquarifyLast \/ SquarifyRow

SpecLayout == LayoutInit /\ [][LayoutNext]_vars
(***************************************************************************)
(* Spec: one run of scanner2.py, from __main__ to the process's exit.      *)
(***************************************************************************)
\* the worker limit of the pool (20 in scanner2.py:26, scaled so that a
\* bounded file set exceeds it)
MAX_WORKERS == 2
\* the file cap of the enumerator (2000 in scanner2.py:25, scaled likewise)
MAX_FILES == 3
\* the most files in a repository of Spec
NumFiles == 3

Digit == <<"1", "2", "3", "4", "5", "6", "7", "8", "9">>
PyName(i) == <<"f", Digit[i], ".", "p", "y">>

\* what a source file of Spec's repositories holds
FileKinds ==
    {[readable |-> TRUE, content |-> <<"x", "\n">>, lizard_raises |-> FALSE, ccn |-> <<>>],
     [readable |-> TRUE, content |-> <<"x", "\n", "x">>, lizard_raises |-> FALSE,
      ccn |-> <<3, 4>>],
     [readable |-> TRUE, content |-> <<"x", "\n", "x", "\n", "x", "\n">>,
      lizard_raises |-> FALSE, ccn |-> <<60>>],
     [readable |-> TRUE, content |-> <<>>, lizard_raises |-> FALSE, ccn |-> <<>>],
     [readable |-> TRUE, content |-> <<"x">>, lizard_raises |-> TRUE, ccn |-> <<>>],
     [readable |-> FALSE, content |-> <<"x">>, lizard_raises |-> FALSE, ccn |-> <<>>]}

FileOf(i, kind) ==
    [name |-> PyName(i), readable |-> kind.readable, content |-> kind.content,
     lizard_raises |-> kind.lizard_raises, ccn |-> kind.ccn]

TreeOf(kinds) == <<[root |-> <<>>, files |-> [i \in 1..Len(kinds) |-> FileOf(i, kinds[i])]]>>

RunTrees == {TreeOf(kinds) : kinds \in UNION {[1..n -> FileKinds] : n \in 0..NumFiles}}

\* a tile list an earlier run left in city_data2.json
OldCity == <<[name |-> <<"o">>, x |-> Zero, y |-> Zero, w |-> ToFloat(150),
              d |-> ToFloat(150), h |-> 2, color |-> "#00ffcc", size |-> 1]>>

LayoutIdle ==
    /\ sizes = <<>>
    /\ dynamic_area = 0
    /\ values = <<>>
    /\ free = NoRect
    /\ rects = <<>>
    /\ lpc = "idle"

Init ==
    /\ pc = "main"
    /\ argv_url \in {"absent", "malformed", "ok"}
    /\ tree \in RunTrees
    /\ tmp_dir = "none"
    /\ local_repo_path = None
    /\ files = <<>>
    /\ fut = <<>>
    /\ files_to_render = <<>>
    /\ city_data = <<>>
    /\ data_file \in {Absent, Written(0, OldCity)}
    /\ exc = None
    /\ exit_code = None
    /\ fatal = None
    /\ LayoutIdle
    /\ walk = WalkInit
    /\ AppIdle

Raise(type, msg) == Some([type |-> type, msg |-> msg])

\* line 222
ErrNoUrl == Raise("Exception", "Repository URL is required")
\* line 131
ErrEmptyFileSet == Raise("Exception", "No analyzable source files found in repository.")
\* line 147
ErrNoneAnalyzable == Raise("Exception", "No analyzable files could be processed.")

\* lines 214-222 and 116-121: the argument check and get_github_repo_info
Main ==
    /\ pc = "main"
    /\ IF argv_url = "absent"
       THEN /\ exc' = ErrNoUrl
            /\ pc' = "exit"
       ELSE IF argv_url = "malformed"
       THEN /\ exc' = Raise("IndexError", "list index out of range")
            /\ pc' = "exit"
       ELSE /\ pc' = "clone"
            /\ UNCHANGED exc
    /\ UNCHANGED <<argv_url, tree, tmp_dir, local_repo_path, files, fut,
                   files_to_render, city_data, data_file, exit_code, fatal, layoutVars, walk, appVars>>

\* clone_repository, git clone succeeding
CloneOk ==
    /\ pc = "clone"
    /\ tmp_dir' = "present"
    /\ local_repo_path' = Some("tmp")
    /\ pc' = "enumerate"
    /\ UNCHANGED <<argv_url, tree, files, fut, files_to_render, city_data,
                   data_file, exc, exit_code, fatal, layoutVars, walk, appVars>>

\* clone_repository, git clone failing: the directory is removed and the error re-raised
CloneFail ==
    /\ pc = "clone"
    /\ tmp_dir' = "removed"
    /\ exc' = Raise("CalledProcessError", "git clone returned non-zero exit status")
    /\ pc' = "cleanup"
    /\ UNCHANGED <<argv_url, tree, local_repo_path, files, fut, files_to_render,
                   city_data, data_file, exit_code, fatal, layoutVars, walk, appVars>>

\* lines 127-129 without the check of lines 130-131
EnumerateUnchecked ==
    /\ pc = "enumerate"
    /\ files' = get_source_files_from_local(tree, MAX_FILES)
    /\ fut' = [i \in 1..Len(files') |-> [state |-> "new", result |-> None]]
    /\ pc' = IF files' = <<>> THEN "collect" ELSE "submit"
    /\ UNCHANGED <<argv_url, tree, tmp_dir, local_repo_path, files_to_render, exc,
                   city_data, data_file, exit_code, fatal, layoutVars, walk, appVars>>

\* lines 127-131
Enumerate ==
    /\ pc = "enumerate"
    /\ files' = get_source_files_from_local(tree, MAX_FILES)
    /\ IF files' = <<>>
       THEN /\ exc' = ErrEmptyFileSet
            /\ pc' = "cleanup"
            /\ fut' = <<>>
       ELSE /\ pc' = "submit"
            /\ fut' = [i \in 1..Len(files') |-> [state |-> "new", result |-> None]]
            /\ UNCHANGED exc
    /\ UNCHANGED <<argv_url, tree, tmp_dir, local_repo_path, files_to_render,
                   city_data, data_file, exit_code, fatal, layoutVars, walk, appVars>>

InState(st) == {i \in DOMAIN fut : fut[i].state = st}

\* line 135: executor.submit for the next file, in the order of files
Submit ==
    /\ pc = "submit"
    /\ LET i == CHOOSE j \in InState("new") : \A m \in InState("new") : j <= m
       IN  /\ fut' = [fut EXCEPT ![i].state = "queued"]
           /\ pc' = IF InState("new") = {i} THEN "collect" ELSE "submit"
    /\ UNCHANGED <<argv_url, tree, tmp_dir, local_repo_path, files, files_to_render,
                   city_data, data_file, exc, exit_code, fatal, layoutVars, walk, appVars>>

\* a pool that never refuses a task
PoolHasRoomUnbounded == TRUE

\* whether the pool may start another task
PoolHasRoom == Cardinality(InState("running")) < MAX_WORKERS

\* a worker thread of the pool takes the oldest queued task
Start ==
    /\ InState("queued") # {}
    /\ PoolHasRoom
    /\ LET i == CHOOSE j \in InState("queued") : \A m \in InState("queued") : j <= m
       IN  fut' = [fut EXCEPT ![i].state = "running"]
    /\ UNCHANGED <<pc, argv_url, tree, tmp_dir, local_repo_path, files, files_to_render,
                   city_data, data_file, exc, exit_code, fatal, layoutVars, walk, appVars>>

\* a pool that puts a failed analysis back in its queue
FinishRetries ==
    /\ \E i \in InState("running") :
         fut' = [fut EXCEPT ![i] =
                    IF analyze_file(tree, files[i]) = None
                    THEN [state |-> "queued", result |-> None]
                    ELSE [state |-> "finished", result |-> analyze_file(tree, files[i])]]
    /\ UNCHANGED <<pc, argv_url, tree, tmp_dir, local_repo_path, files, files_to_render,
                   city_data, data_file, exc, exit_code, fatal, layoutVars, walk, appVars>>

\* a worker thread returns from analyze_file
Finish ==
    /\ \E i \in InState("running") :
         fut' = [fut EXCEPT ![i] = [state |-> "finished",
                                    result |-> analyze_file(tree, files[i])]]
    /\ UNCHANGED <<pc, argv_url, tree, tmp_dir, local_repo_path, files, files_to_render,
                   city_data, data_file, exc, exit_code, fatal, layoutVars, walk, appVars>>

\* a collector that keeps only the result it was handed last
CollectedOverwrites(ftr, result) == IF result # None THEN <<result[1]>> ELSE ftr

\* lines 140-142: the result of a completed future joins files_to_render when truthy
Collected(ftr, result) == IF result # None THEN Append(ftr, result[1]) ELSE ftr

\* lines 136-144: as_completed yields a finished future
Collect ==
    /\ pc = "collect"
    /\ \E i \in InState("finished") :
         /\ fut' = [fut EXCEPT ![i].state = "yielded"]
         /\ files_to_render' = Collected(files_to_render, fut[i].result)
    /\ UNCHANGED <<pc, argv_url, tree, tmp_dir, local_repo_path, files,
                   city_data, data_file, exc, exit_code, fatal, layoutVars, walk, appVars>>

\* lines 146-157, once as_completed is exhausted and the pool shut down
Layout ==
    /\ pc = "collect"
    /\ InState("yielded") = DOMAIN fut
    /\ IF files_to_render = <<>>
       THEN /\ exc' = ErrNoneAnalyzable
            /\ pc' = "cleanup"
            /\ UNCHANGED <<sizes, dynamic_area, rects>>
       ELSE /\ sizes' = SizesOf(files_to_render)
            /\ dynamic_area' = DynamicArea(Len(files_to_render))
            /\ rects' = LayoutCall(sizes', dynamic_area')
            /\ pc' = "assemble"
            /\ UNCHANGED exc
    /\ UNCHANGED <<argv_url, tree, tmp_dir, local_repo_path, files, fut, files_to_render,
                   city_data, data_file, exit_code, fatal, values, free, lpc, walk, appVars>>

\* lines 159-182
Assemble ==
    /\ pc = "assemble"
    /\ IF AssembleTiles(files_to_render, rects) = None
       THEN /\ exc' = Raise("IndexError", "list index out of range")
            /\ pc' = "cleanup"
            /\ UNCHANGED city_data
       ELSE /\ city_data' = AssembleTiles(files_to_render, rects)[1]
            /\ pc' = "write_open"
            /\ UNCHANGED exc
    /\ UNCHANGED <<argv_url, tree, tmp_dir, local_repo_path, files, fut, files_to_render,
                   data_file, exit_code, fatal, layoutVars, walk, appVars>>

\* line 184: open(..., 'w') truncates the file
WriteOpen ==
    /\ pc = "write_open"
    /\ data_file' = Truncated(0)
    /\ pc' = "write_dump"
    /\ UNCHANGED <<argv_url, tree, tmp_dir, local_repo_path, files, fut, files_to_render,
                   city_data, exc, exit_code, fatal, layoutVars, walk, appVars>>

\* line 185 and the end of the with block: the tile list is in the file
WriteDump ==
    /\ pc = "write_dump"
    /\ data_file' = Written(0, city_data)
    /\ pc' = "cleanup"
    /\ UNCHANGED <<argv_url, tree, tmp_dir, local_repo_path, files, fut, files_to_render,
                   city_data, exc, exit_code, fatal, layoutVars, walk, appVars>>

\* lines 187-190: the finally block
Cleanup ==
    /\ pc = "cleanup"
    /\ tmp_dir' = IF local_repo_path # None /\ tmp_dir = "present" THEN "removed" ELSE tmp_dir
    /\ pc' = "exit"
    /\ UNCHANGED <<argv_url, tree, local_repo_path, files, fut, files_to_render,
                   city_data, data_file, exc, exit_code, fatal, layoutVars, walk, appVars>>

\* lines 223-225, or the normal end of the script
Exit ==
    /\ pc = "exit"
    /\ exit_code' = IF exc = None THEN Some(0) ELSE Some(1)
    /\ fatal' = IF exc = None THEN None ELSE Some(exc[1].msg)
    /\ pc' = "exited"
    /\ UNCHANGED <<argv_url, tree, tmp_dir, local_repo_path, files, fut, files_to_render,
                   city_data, data_file, exc, layoutVars, walk, appVars>>

Next ==
    \/ Main \/ CloneOk \/ CloneFail \/ Enumerate
    \/ Submit \/ Start \/ Finish \/ Collect
    \/ Layout \/ Assemble \/ WriteOpen \/ WriteDump \/ Cleanup \/ Exit

Spec == Init /\ [][Next]_vars
(***************************************************************************)
(* SpecAssemble: the assembly loop and what follows it, lines 159-190,     *)
(* entered with every pair of a metric list and a rectangle list: the      *)
(* rectangles are what the external squarify call returned, which the      *)
(* loop takes as it comes.                                                 *)
(***************************************************************************)
MetricKinds == {<<1, 1>>, <<2, 7>>, <<3, 60>>}

MetricLists ==
    {[i \in 1..Len(ks) |-> [name |-> PyName(i), size |-> ks[i][1],
                            complexity |-> ks[i][2], churn |-> 1]] :
        ks \in UNION {[1..n -> MetricKinds] : n \in 1..NumFiles}}

RectLists == {LayoutCall(szs, 150) : szs \in SizeLists \cup {<<>>}}

AssembleInit ==
    /\ pc = "assemble"
    /\ argv_url = "ok"
    /\ tree = <<>>
    /\ tmp_dir = "present"
    /\ local_repo_path = Some("tmp")
    /\ files = <<>>
    /\ fut = <<>>
    /\ files_to_render \in MetricLists
    /\ city_data = <<>>
    /\ data_file \in {Absent, Written(0, OldCity)}
    /\ exc = None
    /\ exit_code = None
    /\ fatal = None
    /\ sizes = SizesOf(files_to_render)
    /\ dynamic_area = DynamicArea(Len(files_to_render))
    /\ values = <<>>
    /\ free = NoRect
    /\ rects \in RectLists
    /\ lpc = "idle"
    /\ walk = WalkInit
    /\ AppIdle

AssembleNext == Assemble \/ WriteOpen \/ WriteDump \/ Cleanup \/ Exit

SpecAssemble == AssembleInit /\ [][AssembleNext]_vars

(***************************************************************************)
(* SpecEnum: the enumerator, one loop iteration per step, on every bounded *)
(* tree: the top directory and up to MaxDirs - 1 directories below it.     *)
(***************************************************************************)
\* the most directories of a tree of SpecEnum
MaxDirs == 2
\* the most files of one directory of SpecEnum
MaxDirFiles == 2

EnumNames == {<<"a", ".", "p", "y">>, <<"n", ".", "m", "d">>}
SubRoots == {DotGit, <<".", "g", "i", "t", "h", "u", "b">>, <<"s", "r", "c">>}

EnumFile(name) ==
    [name |-> name, readable |-> TRUE, content |-> <<"x">>, lizard_raises |-> FALSE,
     ccn |-> <<>>]

EnumFileLists ==
    {[k \in 1..Len(names) |-> EnumFile(names[k])] :
        names \in UNION {[1..n -> EnumNames] : n \in 0..MaxDirFiles}}

EnumTrees ==
    {[d \in 1..Len(dirs) |-> [root |-> IF d = 1 THEN <<>> ELSE dirs[d].root,
                              files |-> dirs[d].files]] :
        dirs \in UNION {[1..n -> [root : SubRoots, files : EnumFileLists]] : n \in 1..MaxDirs}}

EnumInit ==
    /\ tree \in EnumTrees
    /\ walk = WalkInit
    /\ pc = "idle"
    /\ argv_url = "ok"
    /\ tmp_dir = "present"
    /\ local_repo_path = Some("tmp")
    /\ files = <<>>
    /\ fut = <<>>
    /\ files_to_render = <<>>
    /\ city_data = <<>>
    /\ data_file = Absent
    /\ exc = None
    /\ exit_code = None
    /\ fatal = None
    /\ LayoutIdle
    /\ AppIdle

\* one iteration of the loops of get_source_files_from_local
Walk ==
    /\ ~walk.returned
    /\ walk' = WalkStep(tree, MAX_FILES, walk)
    /\ UNCHANGED <<runVars, layoutVars, appVars>>

EnumNext == Walk

SpecEnum == EnumInit /\ [][EnumNext]_vars

(***************************************************************************)
(* SpecApp: app.py serving analyze requests, each running scanner2.py as a *)
(* subprocess in the shared working directory.  A subprocess is followed   *)
(* through the steps that touch what it shares with the server: its        *)
(* temporary directory, city_data2.json and its exit status; the work of   *)
(* lines 127-182 in between is one step, with the completion order of the  *)
(* analyses chosen freely.                                                 *)
(***************************************************************************)
\* the analyze requests of SpecApp
NumRequests == 2
\* the clock of SpecApp stops after this many ticks
MaxTime == 2
\* ticks per second: strftime('%Y%m%d-%H%M%S') drops what is below a second
TicksPerSecond == 2

Requests == 1..NumRequests

\* the repository URLs of SpecApp; "" is a missing repo_url
Urls == {"", "bad", "noclone", "nofiles", "corrupt", "one", "two"}

\* git clone fails for this URL
CloneFails(url) == url = "noclone"

\* get_github_repo_info raises IndexError on a URL without owner/repo
Malformed(url) == url = "bad"

\* the tree a successful clone of the URL leaves in the temporary directory
RepoTree(url) ==
    LET empty == [readable |-> TRUE, content |-> <<>>, lizard_raises |-> FALSE, ccn |-> <<>>]
        raises == [readable |-> TRUE, content |-> <<"x", "\n">>, lizard_raises |-> TRUE,
                   ccn |-> <<>>]
        small == [readable |-> TRUE, content |-> <<"x", "\n">>, lizard_raises |-> FALSE,
                  ccn |-> <<>>]
        mid == [readable |-> TRUE, content |-> <<"x", "\n", "x">>, lizard_raises |-> FALSE,
                ccn |-> <<3, 4>>]
    IN  IF url = "nofiles" THEN TreeOf(<<>>)
        ELSE IF url = "corrupt" THEN TreeOf(<<empty, raises>>)
        ELSE IF url = "one" THEN TreeOf(<<mid>>)
        ELSE TreeOf(<<small, mid>>)

\* a response: the HTTP status, the error text (detail: the subprocess's output
\* quoted after 'Analysis failed: '), the tile list and the snapshot's meta
NoResponse == [status |-> 0, error |-> "", detail |-> None, data |-> <<>>, snapshot |-> None]
ErrorResponse(status, error) ==
    [status |-> status, error |-> error, detail |-> None, data |-> <<>>, snapshot |-> None]

NoProc ==
    [pc |-> "none", tmp_dir |-> "none", local_repo_path |-> None, city_data |-> <<>>,
     exc |-> None, exit_code |-> None, fatal |-> None]

AppInit ==
    /\ req = [r \in Requests |-> [pc |-> "new", repo_url |-> "", resp |-> NoResponse]]
    /\ proc = [r \in Requests |-> NoProc]
    /\ snapshots = [id \in 0..(MaxTime \div TicksPerSecond) |-> None]
    /\ time = 0
    /\ data_file \in {Absent, Written(0, OldCity)}
    /\ pc = "idle"
    /\ argv_url = "ok"
    /\ tree = <<>>
    /\ tmp_dir = "none"
    /\ local_repo_path = None
    /\ files = <<>>
    /\ fut = <<>>
    /\ files_to_render = <<>>
    /\ city_data = <<>>
    /\ exc = None
    /\ exit_code = None
    /\ fatal = None
    /\ LayoutIdle
    /\ walk = WalkInit

appFrame == <<runLocal, layoutVars, walk>>

\* app.py lines 35-60: the request arrives; without a repo_url it is answered
\* 400, otherwise the subprocess is started
Receive(r) ==
    /\ req[r].pc = "new"
    /\ \E url \in Urls :
         IF url = ""
         THEN /\ req' = [req EXCEPT ![r] = [pc |-> "done", repo_url |-> url,
                           resp |-> ErrorResponse(400, "Repository URL is required")]]
              /\ UNCHANGED proc
         ELSE /\ req' = [req EXCEPT ![r] = [pc |-> "wait", repo_url |-> url,
                                            resp |-> NoResponse]]
              /\ proc' = [proc EXCEPT ![r].pc = "main"]
    /\ UNCHANGED <<snapshots, time, data_file, appFrame>>

\* scanner2.py lines 214-222 and 116-121 in the subprocess of request r
ProcMain(r) ==
    /\ proc[r].pc = "main"
    /\ proc' = [proc EXCEPT ![r] =
                  IF Malformed(req[r].repo_url)
                  THEN [@ EXCEPT !.exc = Raise("IndexError", "list index out of range"),
                                 !.pc = "exit"]
                  ELSE [@ EXCEPT !.pc = "clone"]]
    /\ UNCHANGED <<req, snapshots, time, data_file, appFrame>>

\* clone_repository in the subprocess of request r
ProcClone(r) ==
    /\ proc[r].pc = "clone"
    /\ proc' = [proc EXCEPT ![r] =
                  IF CloneFails(req[r].repo_url)
                  THEN [@ EXCEPT !.tmp_dir = "removed",
                                 !.exc = Raise("CalledProcessError",
                                               "git clone returned non-zero exit status"),
                                 !.pc = "cleanup"]
                  ELSE [@ EXCEPT !.tmp_dir = "present", !.local_repo_path = Some("tmp"),
                                 !.pc = "build"]]
    /\ UNCHANGED <<req, snapshots, time, data_file, appFrame>>

RECURSIVE CollectAll(_, _, _)
\* files_to_render after the futures complete in the given order
CollectAll(disk, fs, order) ==
    IF order = <<>> THEN <<>>
    ELSE Collected(CollectAll(disk, fs, SubSeq(order, 1, Len(order) - 1)),
                   analyze_file(disk, fs[order[Len(order)]]))

Orders(n) == {o \in [1..n -> 1..n] : \A i, j \in 1..n : i # j => o[i] # o[j]}

\* lines 127-182 for the repository of a URL: how the run can leave them, one
\* outcome per order in which the analyses complete
BuildOutcome(url) ==
    LET disk == RepoTree(url)
        fs == get_source_files_from_local(disk, MAX_FILES)
    IN  IF fs = <<>>
        THEN {[exc |-> ErrEmptyFileSet, city_data |-> <<>>, pc |-> "cleanup"]}
        ELSE {LET ftr == CollectAll(disk, fs, order)
              IN  IF ftr = <<>>
                  THEN [exc |-> ErrNoneAnalyzable, city_data |-> <<>>, pc |-> "cleanup"]
                  ELSE [exc |-> None,
                        city_data |-> AssembleTiles(ftr, LayoutCall(SizesOf(ftr),
                                                        DynamicArea(Len(ftr))))[1],
                        pc |-> "write_open"] :
              order \in Orders(Len(fs))}

BuildOutcomes == [url \in Urls |-> BuildOutcome(url)]

\* lines 127-182 in the subprocess of request r
ProcBuild(r) ==
    /\ proc[r].pc = "build"
    /\ \E o \in BuildOutcomes[req[r].repo_url] :
         proc' = [proc EXCEPT ![r].exc = o.exc, ![r].city_data = o.city_data,
                              ![r].pc = o.pc]
    /\ UNCHANGED <<req, snapshots, time, data_file, appFrame>>

\* line 184 in the subprocess of request r
ProcWriteOpen(r) ==
    /\ proc[r].pc = "write_open"
    /\ data_file' = Truncated(r)
    /\ proc' = [proc EXCEPT ![r].pc = "write_dump"]
    /\ UNCHANGED <<req, snapshots, time, appFrame>>

\* line 185 in the subprocess of request r
ProcWriteDump(r) ==
    /\ proc[r].pc = "write_dump"
    /\ data_file' = Written(r, proc[r].city_data)
    /\ proc' = [proc EXCEPT ![r].pc = "cleanup"]
    /\ UNCHANGED <<req, snapshots, time, appFrame>>

\* lines 187-190 in the subprocess of request r
ProcCleanup(r) ==
    /\ proc[r].pc = "cleanup"
    /\ proc' = [proc EXCEPT
                  ![r].tmp_dir = IF proc[r].local_repo_path # None /\ @ = "present"
                                 THEN "removed" ELSE @,
                  ![r].pc = "exit"]
    /\ UNCHANGED <<req, snapshots, time, data_file, appFrame>>

\* lines 223-225, or the normal end, in the subprocess of request r
ProcExit(r) ==
    /\ proc[r].pc = "exit"
    /\ proc' = [proc EXCEPT
                  ![r].exit_code = IF proc[r].exc = None THEN Some(0) ELSE Some(1),
                  ![r].fatal = IF proc[r].exc = None THEN None
                               ELSE Some(proc[r].exc[1].msg),
                  ![r].pc = "exited"]
    /\ UNCHANGED <<req, snapshots, time, data_file, appFrame>>

\* app.py lines 54-60 and 101-102: the 300 s pass before the subprocess ends;
\* subprocess.run kills it where it stands and the request is answered 408
Timeout(r) ==
    /\ req[r].pc = "wait"
    /\ proc[r].pc \notin {"exited", "killed"}
    /\ proc' = [proc EXCEPT ![r].pc = "killed"]
    /\ req' = [req EXCEPT ![r].pc = "done",
                 ![r].resp = ErrorResponse(408, "Analysis timed out (> 300 seconds)")]
    /\ UNCHANGED <<snapshots, time, data_file, appFrame>>

\* strftime('%Y%m%d-%H%M%S') of the clock: the second the instant lies in
SnapshotId(t) == t \div TicksPerSecond

\* app.py lines 62-99, once the subprocess has ended
Respond(r) ==
    /\ req[r].pc = "wait"
    /\ proc[r].pc = "exited"
    /\ IF proc[r].exit_code # Some(0)
       THEN /\ req' = [req EXCEPT ![r].pc = "done",
                         ![r].resp = [ErrorResponse(400, "Analysis failed: ")
                                        EXCEPT !.detail = proc[r].fatal]]
            /\ UNCHANGED snapshots
       ELSE IF data_file.state = "absent"
       THEN /\ req' = [req EXCEPT ![r].pc = "done",
                         ![r].resp = ErrorResponse(400, "No data generated")]
            /\ UNCHANGED snapshots
       ELSE IF data_file.state = "truncated"
       THEN /\ req' = [req EXCEPT ![r].pc = "done",
                         ![r].resp = ErrorResponse(500, "JSONDecodeError")]
            /\ UNCHANGED snapshots
       ELSE LET tiles == data_file.tiles
                snapshot_meta == [id |-> SnapshotId(time), created_at |-> SnapshotId(time),
                                  repo_url |-> req[r].repo_url,
                                  label |-> req[r].repo_url,  \* no label given
                                  file_count |-> Len(tiles)]
            IN  /\ snapshots' = [snapshots EXCEPT ![SnapshotId(time)] =
                                    Some([meta |-> snapshot_meta, data |-> tiles])]
                /\ req' = [req EXCEPT ![r].pc = "done",
                             ![r].resp = [status |-> 200, error |-> "", detail |-> None,
                                          data |-> tiles,
                                          snapshot |-> Some(snapshot_meta)]]
    /\ UNCHANGED <<proc, time, data_file, appFrame>>

\* the clock advances
Tick ==
    /\ time < MaxTime
    /\ time' = time + 1
    /\ UNCHANGED <<req, proc, snapshots, data_file, appFrame>>

\* app.py lines 108-120: the answer of GET /api/data in the current state
get_current_data ==
    IF data_file.state = "absent" THEN [status |-> 200, error |-> "", data |-> <<>>]
    ELSE IF data_file.state = "truncated"
    THEN [status |-> 400, error |-> "The city_data2.json file is not valid JSON.",
          data |-> <<>>]
    ELSE [status |-> 200, error |-> "", data |-> data_file.tiles]

\* app.py lines 143-151: the answer of GET /api/snapshots/<id> in the current state
get_snapshot(snapshot_id) ==
    IF snapshot_id \notin DOMAIN snapshots \/ snapshots[snapshot_id] = None
    THEN [status |-> 404, payload |-> None]
    ELSE [status |-> 200, payload |-> snapshots[snapshot_id]]

AppNext ==
    \/ \E r \in Requests :
         \/ Receive(r) \/ ProcMain(r) \/ ProcClone(r) \/ ProcBuild(r)
         \/ ProcWriteOpen(r) \/ ProcWriteDump(r) \/ ProcCleanup(r) \/ ProcExit(r)
         \/ Timeout(r) \/ Respond(r)
    \/ Tick

SpecApp == AppInit /\ [][AppNext]_vars

(***************************************************************************)
(* Properties.                                                             *)
(***************************************************************************)
Running == InState("running")

\* C1: in every state of a run, the analyze_file calls that have started and
\* not finished number at most the worker limit, however many files there are.
C1_AtMostWorkersRunning == Cardinality(Running) <= MAX_WORKERS

\* the pool is saturated while a further file waits
C1_Witness ==
    /\ Len(files) > MAX_WORKERS
    /\ Cardinality(Running) = MAX_WORKERS
    /\ InState("queued") # {}

\* the file on disk an enumerated record names
DiskFile(file_info) == tree[file_info.local_path[1]].files[file_info.local_path[2]]

\* a file whose analysis fails: unreadable, empty, or lizard raises on it
FailingFile(f) == ~f.readable \/ f.content = <<>> \/ f.lizard_raises

AnalyzableNames == {files[i].name : i \in {j \in DOMAIN files : ~FailingFile(DiskFile(files[j]))}}
FailingNames == {files[i].name : i \in {j \in DOMAIN files : FailingFile(DiskFile(files[j]))}}
TileNames(tiles) == {tiles[i].name : i \in DOMAIN tiles}

\* C2: a run over a file set with at least one analyzable file ends with exit
\* status 0 having analyzed every file, and the tile list it wrote holds exactly
\* the analyzable files: no failing file is in it and no other file is missing.
C2_FailuresDropped ==
    (pc = "exited" /\ AnalyzableNames # {}) =>
        /\ exit_code = Some(0)
        /\ InState("yielded") = DOMAIN files
        /\ data_file = Written(0, city_data)
        /\ TileNames(city_data) = AnalyzableNames
        /\ Len(city_data) = Cardinality(AnalyzableNames)

\* a finished run over one analyzable file and two failing ones
C2_Witness ==
    /\ pc = "exited"
    /\ Cardinality(AnalyzableNames) = 1
    /\ Cardinality(FailingNames) = 2
    /\ \E i \in DOMAIN files : DiskFile(files[i]).lizard_raises
    /\ exit_code = Some(0)

\* what a caller of the run can dispatch on: the exception class and the exit status
ErrorKind(e, code) == <<e[1].type, code>>

\* C3: a run whose enumerated files are all not analyzable fails with an error
\* kind other than the kind of the empty-file-set input error.
C3_AggregateKindDistinct ==
    (pc = "exited" /\ files # <<>> /\ files_to_render = <<>> /\ exc # None) =>
        ErrorKind(exc, exit_code) # ErrorKind(ErrEmptyFileSet, Some(1))

Assembled == pc \in {"write_open", "write_dump", "cleanup", "exit", "exited"} /\ city_data # <<>>

RectOfTile(t) == [x |-> t.x, y |-> t.y, dx |-> t.w, dy |-> t.d]

\* C4: tile i carries the name and size of the i-th collected metric and the
\* rectangle laid out for that metric's size: the i-th rectangle of the layout
\* of the collected sizes, whose area is size_i * A^2 / sum(sizes).
C4_TilePairsMetricAndRect ==
    Assembled =>
        /\ Len(city_data) = Len(files_to_render)
        /\ \A i \in DOMAIN city_data :
             /\ city_data[i].name = files_to_render[i].name
             /\ city_data[i].size = files_to_render[i].size
             /\ RectOfTile(city_data[i])
                  = LayoutCall(SizesOf(files_to_render), dynamic_area)[i]
             /\ RMul(city_data[i].w, city_data[i].d)
                  = Rat(files_to_render[i].size * dynamic_area * dynamic_area,
                        ISum(SizesOf(files_to_render)))

\* three tiles of distinct sizes collected in an order other than the files' order
C4_Witness ==
    /\ pc = "exited"
    /\ Len(city_data) = 3
    /\ city_data[1].name = files[3].name
    /\ city_data[2].name = files[1].name
    /\ Cardinality({city_data[i].size : i \in DOMAIN city_data}) = 3

Area(r) == RMul(r.dx, r.dy)

\* C5: the layout engine returns one rectangle per size, and rectangle i has
\* area size_i * A^2 / sum(sizes).
C5_AreasProportional ==
    /\ Len(rects) <= Len(sizes)
    /\ lpc = "done" => Len(rects) = Len(sizes)
    /\ \A i \in DOMAIN rects :
         Area(rects[i]) = Rat(sizes[i] * dynamic_area * dynamic_area, ISum(sizes))

\* a finished layout of three sizes, not all equal, in a square of side 2
C5_Witness ==
    /\ lpc = "done"
    /\ Len(rects) = 3
    /\ sizes[1] # sizes[2]
    /\ dynamic_area = 2

Right(r) == RAdd(r.x, r.dx)
Top(r) == RAdd(r.y, r.dy)

InsideSquare(r, side) ==
    /\ RGeq(r.x, Zero) /\ RGeq(r.y, Zero)
    /\ RGeq(r.dx, Zero) /\ RGeq(r.dy, Zero)
    /\ RLeq(Right(r), ToFloat(side)) /\ RLeq(Top(r), ToFloat(side))

\* the interiors of r and q do not meet
NoOverlap(r, q) ==
    \/ RLeq(Right(r), q.x) \/ RLeq(Right(q), r.x)
    \/ RLeq(Top(r), q.y) \/ RLeq(Top(q), r.y)

AreaSum(rs) == RSum([i \in DOMAIN rs |-> Area(rs[i])])

\* C6: after every row, the rectangles laid so far lie in the square, no two
\* overlap, none overlaps the free rectangle, and their areas with the free
\* rectangle's sum to A^2; at the end their areas alone sum to A^2, and a single
\* size yields the whole square.
C6_TilesTheSquare ==
    lpc \in {"squarify", "done"} =>
        /\ \A i \in DOMAIN rects : InsideSquare(rects[i], dynamic_area)
        /\ \A i, j \in DOMAIN rects : i < j => NoOverlap(rects[i], rects[j])
        /\ lpc = "squarify" =>
             /\ InsideSquare(free, dynamic_area)
             /\ \A i \in DOMAIN rects : NoOverlap(rects[i], free)
             /\ RAdd(AreaSum(rects), Area(free)) = ToFloat(dynamic_area * dynamic_area)
        /\ lpc = "done" => AreaSum(rects) = ToFloat(dynamic_area * dynamic_area)
        /\ (lpc = "done" /\ Len(sizes) = 1) =>
             rects = <<[x |-> Zero, y |-> Zero, dx |-> ToFloat(dynamic_area),
                        dy |-> ToFloat(dynamic_area)]>>

\* two rows laid and a free rectangle left, in a square of side 2
C6_Witness ==
    /\ lpc = "squarify"
    /\ Len(rects) = 2
    /\ Len(values) = 1
    /\ rects[1].x # rects[2].x
    /\ dynamic_area = 2

IsPrefix(p, q) == Len(p) <= Len(q) /\ SubSeq(q, 1, Len(p)) = p

CountFiles(tr) == ISum([d \in DOMAIN tr |-> Len(tr[d].files)])

\* the traversal with a cap no tree reaches
Uncapped(tr) == get_source_files_from_local(tr, CountFiles(tr) + 1)

\* C10: at every step the enumerator holds at most max_files records, a prefix
\* of the uncapped traversal; it has returned as soon as it holds max_files, and
\* when it returns with fewer it returns the whole uncapped traversal.
C10_CappedPrefix ==
    /\ Len(walk.source_files) <= MAX_FILES
    /\ IsPrefix(walk.source_files, Uncapped(tree))
    /\ Len(walk.source_files) = MAX_FILES => walk.returned
    /\ (walk.returned /\ Len(walk.source_files) < MAX_FILES) =>
           walk.source_files = Uncapped(tree)

\* the enumerator returned at the cap with a matching file left unvisited
C10_Witness ==
    /\ walk.returned
    /\ Len(walk.source_files) = MAX_FILES
    /\ Len(Uncapped(tree)) > MAX_FILES
C7_FewerRectsFails ==
    (pc = "exited" /\ Len(rects) < Len(files_to_render)) =>
        /\ exit_code = Some(1)
        /\ data_file \in {Absent, Written(0, OldCity)}
\* C8: a request whose run timed out is answered 408 with no tile list and no
\* snapshot, its run was stopped, and city_data2.json is not left holding that
\* run's unfinished write.
C8_TimeoutDiscardsPartialWork ==
    \A r \in Requests :
        req[r].resp.status = 408 =>
            /\ proc[r].pc = "killed"
            /\ req[r].resp.data = <<>>
            /\ req[r].resp.snapshot = None
            /\ ~(data_file.state = "truncated" /\ data_file.by = r)

\* what of C8 the code does keep: the 408 answer carries no tile list and no
\* snapshot, and no other outcome is answered 408
C8_TimeoutAnswer ==
    \A r \in Requests :
        req[r].resp.status = 408 =>
            /\ proc[r].pc = "killed"
            /\ req[r].resp.data = <<>>
            /\ req[r].resp.snapshot = None

\* C9: the snapshot a successful request was told of stays retrievable under
\* its id, with that request's meta and tile list, whatever runs later.
C9_SnapshotKept ==
    \A r \in Requests :
        req[r].resp.status = 200 =>
            get_snapshot(req[r].resp.snapshot[1].id)
                = [status |-> 200,
                   payload |-> Some([meta |-> req[r].resp.snapshot[1],
                                     data |-> req[r].resp.data])]

\* the directories a path names, from the top: the path split at "/"
RECURSIVE PathPartsFrom(_, _, _)
PathPartsFrom(path, part, i) ==
    IF i > Len(path)
    THEN IF part = <<>> THEN <<>> ELSE <<part>>
    ELSE IF path[i] = "/"
    THEN (IF part = <<>> THEN <<>> ELSE <<part>>) \o PathPartsFrom(path, <<>>, i + 1)
    ELSE PathPartsFrom(path, Append(part, path[i]), i + 1)

PathParts(path) == PathPartsFrom(path, <<>>, 1)

\* the directory is .git or lies below a directory named .git
InsideDotGit(root) == \E p \in DOMAIN PathParts(root) : PathParts(root)[p] = DotGit

\* the places <<d, k>> of the tree's files the enumerator returned
EnumeratedPlaces == {walk.source_files[i].local_path : i \in DOMAIN walk.source_files}

TreePlaces ==
    {pl \in (1..MaxDirs) \X (1..MaxDirFiles) :
         pl[1] \in DOMAIN tree /\ pl[2] \in DOMAIN tree[pl[1]].files}

\* C11: when the enumerator returns below the cap, a file of the tree is among
\* the records exactly if its name ends with a supported extension and its
\* directory is not .git nor below .git; a directory such as .github is walked.
C11_EnumeratesAllowListed ==
    (walk.returned /\ Len(walk.source_files) < MAX_FILES) =>
        \A pl \in TreePlaces :
            pl \in EnumeratedPlaces <=>
                /\ Supported(tree[pl[1]].files[pl[2]].name)
                /\ ~InsideDotGit(tree[pl[1]].root)

\* what the enumerator does instead: it skips every directory whose path has
\* the text .git in it
C11_SkipsBySubstring ==
    (walk.returned /\ Len(walk.source_files) < MAX_FILES) =>
        \A pl \in TreePlaces :
            pl \in EnumeratedPlaces <=>
                /\ Supported(tree[pl[1]].files[pl[2]].name)
                /\ ~Contains(tree[pl[1]].root, DotGit)


(***************************************************************************)
(* SpecEncode: the visual encoder inside the assembly loop, lines 159-190, *)
(* on one metric of every complexity up to MaxComplexity, so that every    *)
(* threshold of the color scale is met from both sides.                    *)
(***************************************************************************)
\* the largest complexity of a metric of SpecEncode
MaxComplexity == 52

EncodeMetrics ==
    {<<[name |-> PyName(1), size |-> s, complexity |-> c, churn |-> 1]>> :
        s \in 1..MaxSize, c \in 1..MaxComplexity}

EncodeInit ==
    /\ pc = "assemble"
    /\ argv_url = "ok"
    /\ tree = <<>>
    /\ tmp_dir = "present"
    /\ local_repo_path = Some("tmp")
    /\ files = <<>>
    /\ fut = <<>>
    /\ files_to_render \in EncodeMetrics
    /\ city_data = <<>>
    /\ data_file \in {Absent, Written(0, OldCity)}
    /\ exc = None
    /\ exit_code = None
    /\ fatal = None
    /\ sizes = SizesOf(files_to_render)
    /\ dynamic_area = DynamicArea(Len(files_to_render))
    /\ values = <<>>
    /\ free = NoRect
    /\ rects = LayoutCall(sizes, dynamic_area)
    /\ lpc = "idle"
    /\ walk = WalkInit
    /\ AppIdle

EncodeNext == Assemble \/ WriteOpen \/ WriteDump \/ Cleanup \/ Exit

SpecEncode == EncodeInit /\ [][EncodeNext]_vars

\* the colors of lines 162-171 in the order of the branches: bucket 1 to bucket 5
Palette == <<"#00ffcc", "#00ff88", "#FFC300", "#ff9900", "#ff4444">>

Bucket(color) == CHOOSE b \in DOMAIN Palette : Palette[b] = color

\* C12: the color of every tile is the bucket of its metric's complexity:
\* 1..5 bucket 1, 6..15 bucket 2, 16..30 bucket 3, 31..50 bucket 4, above 50
\* bucket 5, so that 5, 15, 30 and 50 fall in the lower bucket.
C12_ColorByThresholds ==
    Assembled =>
        \A i \in DOMAIN city_data :
            LET c == files_to_render[i].complexity
                b == Bucket(city_data[i].color)
            IN  /\ city_data[i].color \in {Palette[k] : k \in DOMAIN Palette}
                /\ c <= 5 <=> b = 1
                /\ (6 <= c /\ c <= 15) <=> b = 2
                /\ (16 <= c /\ c <= 30) <=> b = 3
                /\ (31 <= c /\ c <= 50) <=> b = 4
                /\ c > 50 <=> b = 5

\* a tile of complexity 50, the last threshold, written in bucket 4
C12_Witness ==
    /\ pc = "exited"
    /\ data_file = Written(0, city_data)
    /\ files_to_render[1].complexity = 50
    /\ city_data[1].color = Palette[4]


\* the results the workers have returned so far
Results == {fut[i].result[1] : i \in {j \in DOMAIN fut : fut[j].result # None}}

\* C13: every metric the analyzer returns has size >= 1 and complexity >= 1,
\* complexity 1 when lizard finds no function; every size handed to the layout
\* is positive; every tile has size >= 1 and h = max(1, 2 * complexity) >= 1.
C13_FloorsHold ==
    /\ \A i \in DOMAIN fut :
         fut[i].result # None =>
            /\ fut[i].result[1].size >= 1
            /\ fut[i].result[1].complexity >= 1
            /\ DiskFile(files[i]).ccn = <<>> => fut[i].result[1].complexity = 1
    /\ \A i \in DOMAIN files_to_render : files_to_render[i] \in Results
    /\ \A i \in DOMAIN sizes : sizes[i] >= 1
    /\ \A i \in DOMAIN city_data :
         /\ city_data[i].size >= 1
         /\ city_data[i].h >= 1
         /\ city_data[i].h = Max(1, 2 * files_to_render[i].complexity)

\* a written tile of a file in which lizard found no function: complexity 1, h 2
C13_Witness ==
    /\ pc = "exited"
    /\ data_file = Written(0, city_data)
    /\ \E i \in DOMAIN files :
         /\ DiskFile(files[i]).ccn = <<>>
         /\ \E k \in DOMAIN city_data :
              /\ city_data[k].name = files[i].name
              /\ city_data[k].h = 2
              /\ files_to_render[k].complexity = 1


\* what the claim compares of a tile
Look(tile) == <<tile.name, tile.size, tile.color, tile.h>>

\* the looks of the tiles of a tree, computed from the tree alone: its
\* enumerated files in the enumerator's order, each analyzed and encoded
RECURSIVE LooksFrom(_, _, _)
LooksFrom(disk, fs, i) ==
    IF i > Len(fs) THEN <<>>
    ELSE LET m == analyze_file(disk, fs[i])
         IN  (IF m = None THEN <<>>
              ELSE << <<m[1].name, m[1].size, Color(m[1].complexity),
                        Height(m[1].complexity)>> >>)
             \o LooksFrom(disk, fs, i + 1)

TreeLooks(disk) == LooksFrom(disk, get_source_files_from_local(disk, MAX_FILES), 1)

\* the two sequences hold the same elements the same number of times
SameMultiset(s, t) ==
    /\ Len(s) = Len(t)
    /\ \E o \in Orders(Len(s)) : \A i \in DOMAIN s : s[i] = t[o[i]]

\* C14: the multiset of (name, size, color, height) of the tiles a run assembles
\* and writes is a function of the file tree alone, whatever order the workers
\* complete in: any two runs on the same tree produce the same multiset.
C14_SameTilesEveryOrder ==
    /\ Assembled => SameMultiset([i \in DOMAIN city_data |-> Look(city_data[i])],
                                 TreeLooks(tree))
    /\ (pc = "exited" /\ exit_code = Some(0)) => data_file = Written(0, city_data)
    /\ (pc = "exited" /\ TreeLooks(tree) # <<>> /\ argv_url = "ok" /\ tmp_dir = "removed"
          /\ local_repo_path # None) => exit_code = Some(0)

\* a finished run whose three tiles, of three looks, are in the reverse of the
\* enumerator's order
C14_Witness ==
    /\ pc = "exited"
    /\ Len(city_data) = 3
    /\ \A i \in 1..3 : Look(city_data[i]) = TreeLooks(tree)[4 - i]
    /\ Cardinality({city_data[i].color : i \in 1..3}) = 3


\* no analysis was submitted, no layout computed and nothing assembled or written
PipelineDidNotRun ==
    /\ \A i \in DOMAIN fut : fut[i].state = "new"
    /\ files_to_render = <<>>
    /\ sizes = <<>> /\ rects = <<>> /\ dynamic_area = 0
    /\ city_data = <<>>
    /\ data_file \in {Absent, Written(0, OldCity)}

\* C15: a run without a repository URL, and a run whose clone holds no file of
\* a supported extension, end with exit status 1 and the input error's message,
\* having submitted no analysis, computed no layout and written no tile list.
C15_InputErrorStopsRun ==
    /\ argv_url = "absent" =>
          /\ PipelineDidNotRun /\ tmp_dir = "none" /\ files = <<>>
          /\ pc \notin {"main", "exit"} =>
                pc = "exited" /\ exit_code = Some(1) /\ exc = ErrNoUrl
                  /\ fatal = Some("Repository URL is required")
    /\ (argv_url = "ok" /\ Uncapped(tree) = <<>>) =>
          /\ PipelineDidNotRun
          /\ pc \notin {"main", "clone", "enumerate", "cleanup", "exit"} =>
                pc = "exited" /\ exit_code = Some(1)
                  /\ (local_repo_path # None => exc = ErrEmptyFileSet)
    /\ exc \in {ErrNoUrl, ErrEmptyFileSet} => PipelineDidNotRun

\* a run that cloned a repository without any supported file and has exited
C15_Witness ==
    /\ pc = "exited"
    /\ exc = ErrEmptyFileSet
    /\ fatal = Some("No analyzable source files found in repository.")
    /\ tmp_dir = "removed"

\* C15 at the trigger surface: a request without repo_url starts no run, a
\* request whose run met the empty file set is answered 400 with the run's
\* message, and neither gets a tile list or a snapshot or touches city_data2.json
C15_InputErrorAnswered ==
    \A r \in Requests :
        /\ (req[r].pc # "new" /\ req[r].repo_url = "") =>
              /\ proc[r] = NoProc
              /\ req[r].resp = ErrorResponse(400, "Repository URL is required")
        /\ proc[r].exc = ErrEmptyFileSet =>
              /\ proc[r].city_data = <<>>
              /\ data_file.by # r
              /\ req[r].pc = "done" =>
                    /\ req[r].resp.status \in {400, 408}
                    /\ req[r].resp.data = <<>>
                    /\ req[r].resp.snapshot = None
        /\ \A id \in DOMAIN snapshots :
              snapshots[id] # None => snapshots[id][1].meta.repo_url \notin {"", "nofiles"}


\* how far a future has come: submitted, started, finished, yielded by as_completed
Rank(st) ==
    IF st = "new" THEN 0 ELSE IF st = "queued" THEN 1 ELSE IF st = "running" THEN 2
    ELSE IF st = "finished" THEN 3 ELSE 4

\* the files whose metric as_completed has handed to the collector
YieldedMetrics == {i \in DOMAIN fut : fut[i].state = "yielded" /\ fut[i].result # None}

\* every collected metric is the result of one yielded future, each such future
\* is collected once, and the results never outnumber the files
CollectedOnce ==
    /\ DOMAIN fut \in {{}, DOMAIN files}
    /\ Len(files_to_render) = Cardinality(YieldedMetrics)
    /\ Len(files_to_render) <= Len(files)
    /\ \A i \in YieldedMetrics :
         Cardinality({k \in DOMAIN files_to_render : files_to_render[k] = fut[i].result[1]}) = 1
    /\ \A i \in DOMAIN fut :
         fut[i].result # None => fut[i].result = analyze_file(tree, files[i])
    /\ InState("yielded") = DOMAIN fut =>
         \A i \in DOMAIN fut : ~FailingFile(DiskFile(files[i])) <=> i \in YieldedMetrics

\* a future only moves forward, one stage at a time, and keeps its result once
\* it has finished: no file is submitted or analyzed a second time
NoRetry ==
    \A i \in DOMAIN fut \cap DOMAIN fut' :
        /\ Rank(fut'[i].state) \in {Rank(fut[i].state), Rank(fut[i].state) + 1}
        /\ Rank(fut[i].state) >= 3 => fut'[i].result = fut[i].result

\* C16: under every interleaving each enumerated file is submitted and analyzed
\* once, the collected sequence holds the metric of every analyzable file once
\* and nothing else, and it is never longer than the file list.
C16_EachFileOnce == [](CollectedOnce) /\ [][NoRetry]_vars

\* every future yielded, in an order other than the order of submission, with a
\* failed analysis among them
C16_Witness ==
    /\ pc = "collect"
    /\ Len(files) = 3
    /\ InState("yielded") = DOMAIN fut
    /\ Len(files_to_render) = 2
    /\ fut[2].result = None
    /\ files_to_render[1].name = files[3].name


\* the number of line breaks in a content
RECURSIVE LineBreaksFrom(_, _)
LineBreaksFrom(content, i) ==
    IF i > Len(content) THEN 0
    ELSE (IF content[i] = "\n" THEN 1 ELSE 0) + LineBreaksFrom(content, i + 1)

LineBreaks(content) == LineBreaksFrom(content, 1)

\* C17: the size of every metric the analyzer returns is the number of line
\* breaks in the file's content, floored at 1.
C17_SizeIsLineBreaks ==
    \A i \in DOMAIN fut :
        fut[i].result # None =>
            fut[i].result[1].size = Max(1, LineBreaks(DiskFile(files[i]).content))

\* what the analyzer reports instead: the number of lines of splitlines, which
\* counts a last line without a line break
C17_SizeIsLineCount ==
    \A i \in DOMAIN fut :
        fut[i].result # None =>
            LET content == DiskFile(files[i]).content
            IN  fut[i].result[1].size =
                    IF content[Len(content)] = "\n" THEN LineBreaks(content)
                    ELSE LineBreaks(content) + 1


\* C18: the tile list a request returns, and the one its snapshot meta counts,
\* is the one its own run assembled, also when another request's run
\* overlaps it.
C18_OwnTilesReturned ==
    \A r \in Requests :
        req[r].resp.status = 200 =>
            /\ req[r].resp.data = proc[r].city_data
            /\ req[r].resp.snapshot[1].file_count = Len(proc[r].city_data)

\* without overlap a request does return its own run's tiles: a successful
\* request whose run was the last to open city_data2.json returned what that
\* run assembled
C18_OwnTilesWhenLastWriter ==
    \A r \in Requests :
        (req[r].resp.status = 200 /\ data_file.by = r /\ data_file.state = "written") =>
            req[r].resp.data = proc[r].city_data


(***************************************************************************)
(* SpecAppFair: SpecApp with the scheduling the system gives: a subprocess *)
(* that can take a step eventually takes it, and a handler whose           *)
(* subprocess has ended eventually answers.  The timeout is not forced.    *)
(***************************************************************************)
ProcStep(r) ==
    \/ ProcMain(r) \/ ProcClone(r) \/ ProcBuild(r) \/ ProcWriteOpen(r)
    \/ ProcWriteDump(r) \/ ProcCleanup(r) \/ ProcExit(r)

AppFairness == \A r \in Requests : WF_vars(ProcStep(r)) /\ WF_vars(Respond(r))

SpecAppFair == AppInit /\ [][AppNext]_vars /\ AppFairness

\* C19: every run's temporary clone directory, once made, is eventually
\* removed, on every path the run can end by, the timeout's kill included.
C19_TmpDirEventuallyRemoved ==
    \A r \in Requests : (proc[r].tmp_dir = "present") ~> (proc[r].tmp_dir = "removed")

\* a run that ends by itself has removed its directory: clone failure, empty
\* file set, no analyzable file, an exception in the assembly, success
C19_EndedRunRemovedIt == pc \in {"exit", "exited"} => tmp_dir # "present"

\* the same for the subprocesses of the requests that were not killed
C19_ExitedProcRemovedIt ==
    \A r \in Requests : proc[r].pc \in {"exit", "exited"} => proc[r].tmp_dir # "present"
=============================================================================
